---- MODULE Spec2Model ----
(***************************************************************************)
(* InterviewNinja backend: the voice router (start/respond/tts/get/end)    *)
(* over the in-memory session table, with the prompt composer, the problem *)
(* bank and the speech-synthesis service it calls.                         *)
(*                                                                         *)
(* Text is a sequence of strings.  Text that the code scans (topics,       *)
(* greeting lead-ins) is spelled one character per element; fixed template *)
(* text that is only ever copied is one element per fragment.              *)
(* An Optional[str] is a record [none, s].                                 *)
(* Request handlers are coroutines on one event loop: the code between two *)
(* awaits that really suspend is one atomic action.                        *)
(* Wall-clock fields (timestamp, created_at) are not modelled.             *)
(***************************************************************************)
EXTENDS Integers, Sequences, FiniteSets, TLC

(* ---------------------------------------------------------------- bounds *)
NumProcs == 2      \* request handlers that can be in flight together
NumIds == 2        \* distinct session-id values (uuid4 strings, request ids)
MaxTurns == 5      \* respond is not taken on a history that would outgrow this

Procs == 1..NumProcs
SessionIds == 1..NumIds

(* ------------------------------------------------------------- schemas.py *)
Verbosity == {"low", "medium", "high"}
Tone == {"friendly", "neutral", "adversarial"}
InterviewType == {"system_design", "live_coding", "ml_theory", "coaching"}
ProblemSource == {"random", "description", "url"}

None == [none |-> TRUE, s |-> <<>>]
Some(s) == [none |-> FALSE, s |-> s]
\* Python truthiness of an Optional[str]: None and "" are falsy
Truthy(o) == ~o.none /\ o.s # <<>>

(* ------------------------------------------------------- inputs (bounded) *)
\* candidate utterances, model replies and text-to-speech inputs
UserMessages == {<<"u1">>, <<"u2">>}
Replies == {<<"r1">>, <<"r2">>}
\* problem_description values a request can carry
Descriptions ==
    {None, Some(<<>>), Some(<<" ">>), Some(<<"B", "V">>),
     Some(<<"B", "V", "\n", "x">>)}
\* problem_url values a request can carry
Urls == {None, Some(<<"u", "r", "l">>)}

\* the start requests tried: every category and tone on the random path,
\* every verbosity and description on the description path, and the url path
\* with and without a url and a scraped description
StartSessionRequest ==
    {r \in [interview_type : InterviewType, verbosity : Verbosity, tone : Tone,
            problem_source : ProblemSource, problem_description : Descriptions,
            problem_url : Urls] :
        \/ /\ r.problem_source = "random"
           /\ r.verbosity = "medium"
           /\ r.problem_description = None /\ r.problem_url = None
        \/ /\ r.problem_source = "description"
           /\ r.interview_type = "ml_theory" /\ r.tone = "adversarial"
           /\ r.problem_url = None
        \/ /\ r.problem_source = "url"
           /\ r.interview_type = "system_design" /\ r.tone = "neutral"
           /\ r.verbosity = "low"
           /\ r.problem_description \in {None, Some(<<"B", "V">>)}}

(* --------------------------------------------------------- problem_bank.py *)
Entry(name) == [name |-> <<name>>, content |-> <<name \o " (content)">>]

SYSTEM_DESIGN_PROBLEMS ==
    {Entry("ML Model Serving Platform"), Entry("Recommendation System"),
     Entry("Fraud Detection Pipeline"), Entry("Search Ranking System")}
LIVE_CODING_PROBLEMS ==
    {Entry("Implement K-Means Clustering"), Entry("Feature Preprocessing Pipeline"),
     Entry("Binary Classification Metrics"), Entry("Gradient Descent Optimizer")}
ML_THEORY_QUESTIONS ==
    {Entry("Bias-Variance Tradeoff"), Entry("Transformer Architecture"),
     Entry("Gradient Problems in Deep Learning"),
     Entry("Loss Functions and Optimization")}
COACHING_TOPICS ==
    {Entry("Interview Preparation Strategy"), Entry("Behavioral Interview Prep"),
     Entry("Technical Communication"), Entry("Career Discussion")}

PROBLEM_BANKS ==
    [t \in InterviewType |->
        CASE t = "system_design" -> SYSTEM_DESIGN_PROBLEMS
          [] t = "live_coding" -> LIVE_CODING_PROBLEMS
          [] t = "ml_theory" -> ML_THEORY_QUESTIONS
          [] OTHER -> COACHING_TOPICS]

\* a selector that draws from all four banks together
get_random_problem_AnyBank(interview_type) ==
    UNION {PROBLEM_BANKS[t] : t \in InterviewType}

\* the entries random.choice can return (the sentinel when the bank is empty)
get_random_problem(interview_type) ==
    LET problems == PROBLEM_BANKS[interview_type]
    IN  IF problems = {}
        THEN {[name |-> <<"General Discussion">>,
               content |-> <<"Let's have a general discussion.">>]}
        ELSE problems

(* ------------------------------------------------------- openai_service.py *)
SYSTEM_PROMPTS ==
    [t \in InterviewType |-> "SYSTEM_PROMPTS[" \o t \o "]"]
TONE_MODIFIERS ==
    [t \in Tone |->
        CASE t = "friendly" ->
               "Be warm, encouraging, and supportive. Use positive reinforcement frequently."
          [] t = "neutral" ->
               "Be professional and balanced. Provide objective feedback without being too warm or cold."
          [] OTHER ->
               "Be challenging and push back on answers. Play devil's advocate. Test their conviction and ability to defend their choices under pressure."]
VERBOSITY_MODIFIERS ==
    [v \in Verbosity |->
        CASE v = "low" ->
               "Keep responses brief and to the point. Ask one question at a time. Minimal explanation."
          [] v = "medium" ->
               "Provide moderate detail in responses. Balance between brevity and thoroughness."
          [] OTHER ->
               "Provide detailed explanations and context. Elaborate on concepts when relevant."]

\* a composer that leaves the tone modifier out of the template
build_system_prompt_NoTone(interview_type, tone, verbosity, problem) ==
    LET prompt == <<SYSTEM_PROMPTS[interview_type],
                    "\n\nCommunication Style:\n",
                    VERBOSITY_MODIFIERS[verbosity],
                    "\n\nImportant: You are simulating a real interview. Stay in character throughout.">>
    IN  IF Truthy(problem)
        THEN prompt \o <<"\n\nThe interview problem/topic is:\n">> \o problem.s
        ELSE prompt

build_system_prompt(interview_type, tone, verbosity, problem) ==
    LET prompt == <<SYSTEM_PROMPTS[interview_type],
                    "\n\nCommunication Style:\n",
                    TONE_MODIFIERS[tone], "\n",
                    VERBOSITY_MODIFIERS[verbosity],
                    "\n\nImportant: You are simulating a real interview. Stay in character throughout.">>
    IN  IF Truthy(problem)
        THEN prompt \o <<"\n\nThe interview problem/topic is:\n">> \o problem.s
        ELSE prompt


(* str helpers used by get_opening_message *)
Whitespace == {" ", "\n", "\t"}

\* the least element of a non-empty set of positions
First(S) == CHOOSE i \in S : \A j \in S : i <= j
\* the greatest element of a non-empty set of positions
Last(S) == CHOOSE i \in S : \A j \in S : j <= i

\* problem.split('\n')[0]
FirstLine(s) ==
    LET breaks == {i \in 1..Len(s) : s[i] = "\n"}
    IN  IF breaks = {} THEN s ELSE SubSeq(s, 1, First(breaks) - 1)

LStrip(s) ==
    LET kept == {i \in 1..Len(s) : s[i] \notin Whitespace}
    IN  IF kept = {} THEN <<>> ELSE SubSeq(s, First(kept), Len(s))

RStrip(s) ==
    LET kept == {i \in 1..Len(s) : s[i] \notin Whitespace}
    IN  IF kept = {} THEN <<>> ELSE SubSeq(s, 1, Last(kept))

\* str.strip()
Strip(s) == RStrip(LStrip(s))

RECURSIVE Replace(_, _, _)
\* str.replace(old, new): leftmost non-overlapping occurrences, one after
\* the other
Replace(s, old, new) ==
    LET found == {i \in 1..(Len(s) - Len(old) + 1) :
                    SubSeq(s, i, i + Len(old) - 1) = old}
    IN  IF found = {} THEN s
        ELSE LET at == First(found)
             IN  SubSeq(s, 1, at - 1) \o new
                 \o Replace(SubSeq(s, at + Len(old), Len(s)), old, new)

NameLimit == 100

Hello == <<"H", "e", "l", "l", "o", "!">>
HiThere == <<"H", "i", " ", "t", "h", "e", "r", "e", "!">>
Welcome == <<"W", "e", "l", "c", "o", "m", "e", "!">>
FriendlyPreamble == <<"Great to meet you! ">>

get_opening_message(interview_type, tone, problem) ==
    LET first_line == Strip(FirstLine(problem.s))
        problem_name ==
            IF Truthy(problem)
            THEN Some(IF Len(first_line) > NameLimit
                      THEN SubSeq(first_line, 1, NameLimit)
                      ELSE first_line)
            ELSE None
        opening ==
            CASE interview_type = "system_design" ->
                   IF Truthy(problem_name)
                   THEN Hello
                        \o <<" Today we're going to design a system together. I'd like you to walk me through how you would build ">>
                        \o problem_name.s
                        \o <<". Before we start, could you briefly share your experience with ML system design?">>
                   ELSE Hello
                        \o <<" Today we're going to work through a system design problem together. I'll present the scenario in just a moment. First, could you tell me a bit about your background with ML system design?">>
              [] interview_type = "live_coding" ->
                   IF Truthy(problem_name)
                   THEN HiThere
                        \o <<" We have a coding challenge for you today. We'll be working on ">>
                        \o problem_name.s
                        \o <<". Feel free to think out loud as you code. Are you ready to get started?">>
                   ELSE HiThere
                        \o <<" Today we'll work through a coding problem together. I encourage you to think out loud as you work through your solution. Ready to see what we'll be tackling?">>
              [] interview_type = "ml_theory" ->
                   IF Truthy(problem_name)
                   THEN Welcome
                        \o <<" Today we'll dive into some machine learning theory, specifically around ">>
                        \o problem_name.s
                        \o <<". Let's start with a foundational question to warm up.">>
                   ELSE Welcome
                        \o <<" Today we'll explore some machine learning and deep learning concepts together. I'll ask you questions that might come up in a real interview. Ready to begin?">>
              [] interview_type = "coaching" ->
                   HiThere
                   \o <<" I'm here to help you prepare for your upcoming ML interviews. We can work on anything from behavioral questions to technical communication. What would you like to focus on today?">>
              [] OTHER ->
                   Hello \o <<" Let's get started with your interview practice session.">>
    IN  IF tone = "friendly" THEN FriendlyPreamble \o opening
        ELSE IF tone = "adversarial"
             THEN Replace(Replace(Replace(opening, Hello, <<"Alright,">>),
                                  HiThere, <<"Let's begin.">>),
                          Welcome, <<"Okay,">>)
             ELSE opening

\* the parameters get_opening_message declares, and those without a default
OpeningParameters == {"interview_type", "tone", "problem"}
OpeningRequired == {"interview_type", "tone"}

\* Python binds a keyword call only if every keyword names a parameter and
\* every parameter without a default is given; otherwise it raises TypeError
CallBinds(keywords, parameters, required) ==
    keywords \subseteq parameters /\ required \subseteq keywords

\* generate_response: history translated for the chat-completion call
openai_messages(messages, system_prompt) ==
    <<[role |-> "system", content |-> system_prompt]>>
    \o [i \in 1..Len(messages) |->
          [role |-> IF messages[i].role = "interviewer" THEN "assistant" ELSE "user",
           content |-> messages[i].content]]

\* outcomes of client.chat.completions.create: a reply, or an exception
GenOutcomes ==
    {[ok |-> TRUE, text |-> r] : r \in Replies} \cup {[ok |-> FALSE, text |-> <<>>]}

(* ---------------------------------------------------- elevenlabs_service.py *)
VOICE_ID == "21m00Tcm4TlvDq8ikWAM"
ALTERNATIVE_VOICES ==
    [warm_female |-> "21m00Tcm4TlvDq8ikWAM",
     professional_female |-> "EXAVITQu4vr4xnSDxMaL",
     friendly_female |-> "MF3mGyEYCl7XYWbV9V6O"]

get_voice_for_tone(tone) ==
    IF tone = "friendly" THEN ALTERNATIVE_VOICES.friendly_female
    ELSE IF tone = "adversarial" THEN ALTERNATIVE_VOICES.professional_female
    ELSE ALTERNATIVE_VOICES.warm_female

\* outcomes of the awaited text_to_speech call: audio bytes, or an exception
\* (HTTP error status, timeout, request that cannot be built)
SynthOutcomes == {"ok", "error"}

NoAudio == [present |-> FALSE, text |-> <<>>, voice |-> "None"]
Audio(text, voice) == [present |-> TRUE, text |-> text, voice |-> voice]


(* ------------------------------------------------------------------ state *)
VARIABLES
    sessions,            \* voice.py: sessions, session id -> session dict
    ELEVENLABS_API_KEY,  \* elevenlabs_service.py: TRUE iff the key is set (truthy)
    task,                \* per handler slot: where its coroutine is suspended
    resp,                \* the response sent last, and the slot that sent it
    saved_sessions,      \* session.py: saved_sessions, session id -> saved dict
    files,               \* session.py: SESSIONS_DIR, session id -> <id>.json content
    call                 \* the call of a stateless function made last, with its result

vars == <<sessions, ELEVENLABS_API_KEY, task, resp, saved_sessions, files, call>>

\* the state of the session router (archive)
archive == <<saved_sessions, files>>

Message(role, content) == [role |-> role, content |-> content]

NoBody == [none |-> TRUE]

Idle ==
    [pc |-> "idle", handler |-> "none", session_id |-> 0, text |-> <<>>,
     voice |-> "None", gen_calls |-> 0]

\* a response: status 200 with its payload, or the HTTP error raised.
\* gen_calls / tts_calls count the collaborator calls the request made.
Response(p, op, status, detail, session_id, text, audio, body, total, gen_calls, tts_calls) ==
    [proc |-> p, op |-> op, status |-> status, detail |-> detail, session_id |-> session_id,
     text |-> text, audio |-> audio, body |-> body, total_messages |-> total,
     gen_calls |-> gen_calls, tts_calls |-> tts_calls]

NoResponse == Response(0, "none", 0, "", 0, <<>>, NoAudio, NoBody, 0, 0, 0)

\* no stateless function called yet
NoCall == [fn |-> "none"]

Init ==
    /\ sessions = <<>>
    /\ ELEVENLABS_API_KEY \in BOOLEAN
    /\ task = [p \in Procs |-> Idle]
    /\ resp = NoResponse
    /\ saved_sessions = <<>>
    /\ files = <<>>
    /\ call = NoCall

SessionKnown(session_id) == session_id \in DOMAIN sessions

\* suspend handler p in `await elevenlabs_service.text_to_speech...`
AwaitTts(p, handler, session_id, text, voice, gen_calls) ==
    task' = [task EXCEPT ![p] =
                [pc |-> "await_tts", handler |-> handler, session_id |-> session_id,
                 text |-> text, voice |-> voice, gen_calls |-> gen_calls]]

(* --------------------------------------------------- voice.py start_session *)
\* the keywords of the get_opening_message call at voice.py:51-56
StartSessionOpeningKeywords == {"interview_type", "tone", "verbosity", "problem"}

NoEntry == [name |-> <<>>, content |-> <<>>]

\* get_random_problem is called on the random path only (voice.py:41-42)
ProblemDraws(request) ==
    IF request.problem_source = "random"
    THEN get_random_problem(request.interview_type)
    ELSE {NoEntry}

\* voice.py:39-48
ResolveProblem(request, problem_data) ==
    IF request.problem_source = "random"
    THEN Some(problem_data.name \o <<"\n", "\n">> \o problem_data.content)
    ELSE IF request.problem_source = "description"
            /\ Truthy(request.problem_description)
         THEN request.problem_description
    ELSE IF request.problem_source = "url" /\ Truthy(request.problem_url)
         THEN request.problem_description
    ELSE None

\* a start_session that writes the session record first and computes the
\* opening message after it: the TypeError leaves a record without history
StartSession_StoreFirst(p, request, session_id, problem_data) ==
    /\ task[p].pc = "idle"
    /\ UNCHANGED <<archive, call>>
    /\ sessions' = (session_id :>
                       [interview_type |-> request.interview_type,
                        verbosity |-> request.verbosity, tone |-> request.tone,
                        problem |-> ResolveProblem(request, problem_data),
                        messages |-> <<>>]) @@ sessions
    /\ resp' = Response(p, "start", 500, "TypeError", 0, <<>>, NoAudio, NoBody, 0, 0, 0)
    /\ UNCHANGED <<ELEVENLABS_API_KEY, task>>

\* start_session up to its first suspension.  session_id is the uuid4 drawn,
\* problem_data the entry random.choice returns.
StartSession(p, request, session_id, problem_data) ==
    /\ task[p].pc = "idle"
    /\ UNCHANGED <<archive, call>>
    /\ LET problem == ResolveProblem(request, problem_data)
       IN  IF ~CallBinds(StartSessionOpeningKeywords, OpeningParameters, OpeningRequired)
           THEN \* TypeError out of the call: the handler ends with a 500
                /\ resp' = Response(p, "start", 500, "TypeError", 0, <<>>, NoAudio,
                                    NoBody, 0, 0, 0)
                /\ UNCHANGED <<sessions, ELEVENLABS_API_KEY, task>>
           ELSE LET opening_text ==
                        get_opening_message(request.interview_type, request.tone, problem)
                    session ==
                        [interview_type |-> request.interview_type,
                         verbosity |-> request.verbosity,
                         tone |-> request.tone,
                         problem |-> problem,
                         messages |-> <<Message("interviewer", opening_text)>>]
                IN  /\ sessions' = (session_id :> session) @@ sessions
                    /\ UNCHANGED ELEVENLABS_API_KEY
                    /\ IF ~ELEVENLABS_API_KEY
                       THEN /\ resp' = Response(p, "start", 200, "", session_id,
                                                opening_text, NoAudio, NoBody, 0, 0, 0)
                            /\ UNCHANGED task
                       ELSE /\ AwaitTts(p, "start", session_id, opening_text,
                                        get_voice_for_tone(request.tone), 0)
                            /\ UNCHANGED resp

(* --------------------------------------------------------- voice.py respond *)
\* a respond that looks the session up with sessions.setdefault(...) before
\* it tests for the id: the 404 is still sent, but the id is now in the store
RespondNotFound_Setdefault(p, session_id) ==
    /\ sessions' = (session_id :> [interview_type |-> "coaching",
                                   verbosity |-> "medium", tone |-> "neutral",
                                   problem |-> None, messages |-> <<>>]) @@ sessions
    /\ resp' = Response(p, "respond", 404, "Session not found", session_id, <<>>,
                        NoAudio, NoBody, 0, 0, 0)
    /\ UNCHANGED <<ELEVENLABS_API_KEY, task>>

\* voice.py:97-98
RespondNotFound(p, session_id) ==
    /\ resp' = Response(p, "respond", 404, "Session not found", session_id, <<>>,
                        NoAudio, NoBody, 0, 0, 0)
    /\ UNCHANGED <<sessions, ELEVENLABS_API_KEY, task>>

\* respond up to its first suspension.  generate_response awaits nothing, so
\* the chat-completion call (outcome gen) runs inside this step.
Respond(p, session_id, user_message, gen) ==
    /\ task[p].pc = "idle"
    /\ UNCHANGED <<archive, call>>
    /\ IF ~SessionKnown(session_id)
       THEN RespondNotFound(p, session_id)
       ELSE LET session == sessions[session_id]
                with_user == Append(session.messages, Message("user", user_message))
                with_reply == Append(with_user, Message("interviewer", gen.text))
            IN  /\ Len(with_reply) <= MaxTurns
                /\ UNCHANGED ELEVENLABS_API_KEY
                /\ IF ~gen.ok
                   THEN /\ sessions' = [sessions EXCEPT ![session_id].messages = with_user]
                        /\ resp' = Response(p, "respond", 500, "AI generation error",
                                            session_id, <<>>, NoAudio, NoBody, 0, 1, 0)
                        /\ UNCHANGED task
                   ELSE /\ sessions' = [sessions EXCEPT ![session_id].messages = with_reply]
                        /\ IF ~ELEVENLABS_API_KEY
                           THEN /\ resp' = Response(p, "respond", 200, "", session_id,
                                                    gen.text, NoAudio, NoBody, 0, 1, 0)
                                /\ UNCHANGED task
                           ELSE /\ AwaitTts(p, "respond", session_id, gen.text,
                                            get_voice_for_tone(session.tone), 1)
                                /\ UNCHANGED resp

(* -------------------------------------------------- voice.py text_to_speech *)
\* the endpoint calls elevenlabs_service.text_to_speech(request.text) at once:
\* no look at ELEVENLABS_API_KEY, default voice
TextToSpeech(p, text) ==
    /\ task[p].pc = "idle"
    /\ UNCHANGED <<archive, call>>
    /\ AwaitTts(p, "tts", 0, text, VOICE_ID, 0)
    /\ UNCHANGED <<sessions, ELEVENLABS_API_KEY, resp>>

\* the awaited synthesis call of handler p returns or raises, and the
\* handler runs to its end.  Without a key the request carries no usable
\* xi-api-key header and the call can only raise.
SynthReturn(p, outcome) ==
    /\ task[p].pc = "await_tts"
    /\ UNCHANGED <<archive, call>>
    /\ outcome = "ok" => ELEVENLABS_API_KEY
    /\ LET t == task[p]
           audio == IF outcome = "ok" THEN Audio(t.text, t.voice) ELSE NoAudio
       IN  resp' =
              CASE t.handler = "start" ->
                     \* voice.py:72-89: the exception is caught, audio_url = None
                     Response(p, "start", 200, "", t.session_id, t.text, audio,
                              NoBody, 0, t.gen_calls, 1)
                [] t.handler = "respond" ->
                     \* voice.py:130-147: the exception is caught, audio_url = None
                     Response(p, "respond", 200, "", t.session_id, t.text, audio,
                              NoBody, 0, t.gen_calls, 1)
                [] OTHER ->
                     \* voice.py:156-164: the exception becomes HTTPException(500)
                     IF outcome = "ok"
                     THEN Response(p, "tts", 200, "", 0, t.text, audio, NoBody, 0,
                                   t.gen_calls, 1)
                     ELSE Response(p, "tts", 500, "TTS error", 0, <<>>, NoAudio,
                                   NoBody, 0, t.gen_calls, 1)
    /\ task' = [task EXCEPT ![p] = Idle]
    /\ UNCHANGED <<sessions, ELEVENLABS_API_KEY>>

(* ------------------------------------------- voice.py get_session, end_session *)
GetSession(p, session_id) ==
    /\ task[p].pc = "idle"
    /\ UNCHANGED <<archive, call>>
    /\ resp' =
          IF ~SessionKnown(session_id)
          THEN Response(p, "get", 404, "Session not found", session_id, <<>>, NoAudio,
                        NoBody, 0, 0, 0)
          ELSE Response(p, "get", 200, "", session_id, <<>>, NoAudio,
                        sessions[session_id], 0, 0, 0)
    /\ UNCHANGED <<sessions, ELEVENLABS_API_KEY, task>>

\* an end_session behind a lock that handlers hold across their awaits: it
\* does not run while another handler is suspended
EndSession_Locked(p, session_id) ==
    /\ task[p].pc = "idle"
    /\ \A q \in Procs \ {p} : task[q].pc = "idle"
    /\ UNCHANGED <<archive, call>>
    /\ resp' = Response(p, "end", 404, "Session not found", session_id, <<>>,
                        NoAudio, NoBody, 0, 0, 0)
    /\ UNCHANGED <<sessions, ELEVENLABS_API_KEY, task>>

EndSession(p, session_id) ==
    /\ task[p].pc = "idle"
    /\ UNCHANGED <<archive, call>>
    /\ IF ~SessionKnown(session_id)
       THEN /\ resp' = Response(p, "end", 404, "Session not found", session_id, <<>>,
                                NoAudio, NoBody, 0, 0, 0)
            /\ UNCHANGED sessions
       ELSE /\ sessions' = [i \in DOMAIN sessions \ {session_id} |-> sessions[i]]
            /\ resp' = Response(p, "end", 200, "Session ended", session_id, <<>>,
                                NoAudio, NoBody, Len(sessions[session_id].messages),
                                0, 0)
    /\ UNCHANGED <<ELEVENLABS_API_KEY, task>>

(* -------------------------------------------------------------- session.py *)
\* The handlers of the session router await nothing (the file I/O is
\* synchronous), so each is one atomic step; they are tied to no handler slot.

\* what a save request carries besides its session id (SaveSessionRequest)
SaveContents ==
    {[interview_type |-> "ml_theory",
      messages |-> <<Message("interviewer", <<"r1">>)>>,
      problem |-> None],
     [interview_type |-> "coaching",
      messages |-> <<Message("interviewer", <<"r1">>), Message("user", <<"u1">>)>>,
      problem |-> Some(<<"B", "V">>)]}

\* session.py:32-38 (saved_at is a wall-clock value and is not modelled)
session_data(session_id, content) ==
    [session_id |-> session_id, interview_type |-> content.interview_type,
     messages |-> content.messages, problem |-> content.problem]

\* a <id>.json whose content does not parse: open(.., "w") truncated the
\* file and the dump did not complete
Corrupt == [corrupt |-> TRUE]

\* open + json.dump of session.py:46-47: done, open raised (file untouched),
\* or the write raised after the file was truncated
WriteOutcomes == {"ok", "open_error", "write_error"}

\* session.py:27-55.  Whatever the write does, the except at line 48 prints
\* and the handler returns its success message.
SaveSession(session_id, content, outcome) ==
    LET data == session_data(session_id, content)
    IN  /\ saved_sessions' = (session_id :> data) @@ saved_sessions
        /\ files' = CASE outcome = "ok" -> (session_id :> data) @@ files
                      [] outcome = "write_error" -> (session_id :> Corrupt) @@ files
                      [] OTHER -> files
        /\ resp' = Response(0, "save", 200, "Session saved successfully", session_id,
                            <<>>, NoAudio, NoBody, 0, 0, 0)
        /\ UNCHANGED <<sessions, ELEVENLABS_API_KEY, task, call>>

\* session.py:92-97 and 107-112
Summary(session_id, data) ==
    [session_id |-> session_id, interview_type |-> data.interview_type,
     message_count |-> Len(data.messages)]

RECURSIVE MemoryPart(_, _)
\* session.py:91-97: one summary per entry of saved_sessions (taken here in
\* ascending id order; the dict's insertion order is not modelled)
MemoryPart(i, mem) ==
    IF i > NumIds THEN <<>>
    ELSE (IF i \in DOMAIN mem THEN <<Summary(i, mem[i])>> ELSE <<>>)
         \o MemoryPart(i + 1, mem)

RECURSIVE ReadFiles(_, _, _)
\* session.py:100-114: the loop over os.listdir.  json.load of a file that
\* does not parse raises out of the loop into the except of line 113, which
\* prints; what was appended so far is kept, the rest of the listing is not read.
ReadFiles(listing, mem, disk) ==
    IF listing = <<>> THEN <<>>
    ELSE LET session_id == Head(listing)
         IN  IF session_id \in DOMAIN mem
             THEN ReadFiles(Tail(listing), mem, disk)
             ELSE IF disk[session_id] = Corrupt
                  THEN <<>>
                  ELSE <<Summary(session_id, disk[session_id])>>
                       \o ReadFiles(Tail(listing), mem, disk)

\* the orders in which os.listdir can return the files of SESSIONS_DIR
Listings(disk) ==
    {l \in [1..Cardinality(DOMAIN disk) -> DOMAIN disk] :
        \A i, j \in DOMAIN l : i # j => l[i] # l[j]}

\* the "sessions" list list_sessions returns
list_sessions(mem, disk, listing) ==
    MemoryPart(1, mem) \o ReadFiles(listing, mem, disk)

\* session.py:83-116
ListSessions(listing) ==
    /\ resp' = Response(0, "list", 200, "", 0, <<>>, NoAudio,
                        [sessions |-> list_sessions(saved_sessions, files, listing)],
                        0, 0, 0)
    /\ UNCHANGED <<sessions, ELEVENLABS_API_KEY, task, saved_sessions, files, call>>

\* session.py:119-134.  json.load of a file that does not parse raises out of
\* the handler: a 500.
GetSavedSession(session_id) ==
    /\ resp' =
          IF session_id \in DOMAIN saved_sessions
          THEN Response(0, "get_saved", 200, "", session_id, <<>>, NoAudio,
                        saved_sessions[session_id], 0, 0, 0)
          ELSE IF session_id \in DOMAIN files
               THEN IF files[session_id] = Corrupt
                    THEN Response(0, "get_saved", 500, "JSONDecodeError", session_id,
                                  <<>>, NoAudio, NoBody, 0, 0, 0)
                    ELSE Response(0, "get_saved", 200, "", session_id, <<>>, NoAudio,
                                  files[session_id], 0, 0, 0)
               ELSE Response(0, "get_saved", 404, "Session not found", session_id,
                             <<>>, NoAudio, NoBody, 0, 0, 0)
    /\ UNCHANGED <<sessions, ELEVENLABS_API_KEY, task, saved_sessions, files, call>>

Without(f, x) == [i \in DOMAIN f \ {x} |-> f[i]]

\* a delete that forgets the file: only the in-memory entry is removed
DeleteSession_MemoryOnly(session_id) ==
    /\ saved_sessions' = Without(saved_sessions, session_id)
    /\ files' = files
    /\ resp' =
          IF session_id \in DOMAIN saved_sessions
          THEN Response(0, "delete", 200, "Session deleted", session_id, <<>>,
                        NoAudio, NoBody, 0, 0, 0)
          ELSE Response(0, "delete", 404, "Session not found", session_id, <<>>,
                        NoAudio, NoBody, 0, 0, 0)
    /\ UNCHANGED <<sessions, ELEVENLABS_API_KEY, task, call>>

\* session.py:137-158
DeleteSession(session_id) ==
    LET deleted == session_id \in DOMAIN saved_sessions \/ session_id \in DOMAIN files
    IN  /\ saved_sessions' = Without(saved_sessions, session_id)
        /\ files' = Without(files, session_id)
        /\ resp' =
              IF deleted
              THEN Response(0, "delete", 200, "Session deleted", session_id, <<>>,
                            NoAudio, NoBody, 0, 0, 0)
              ELSE Response(0, "delete", 404, "Session not found", session_id, <<>>,
                            NoAudio, NoBody, 0, 0, 0)
        /\ UNCHANGED <<sessions, ELEVENLABS_API_KEY, task, call>>

\* the process ends and is started again: the module-level tables are built
\* anew (voice.py:28, session.py:20), the key is read again from the
\* environment, handlers in flight are gone; os.makedirs(exist_ok=True)
\* keeps what SESSIONS_DIR holds
Restart ==
    /\ sessions' = <<>>
    /\ saved_sessions' = <<>>
    /\ ELEVENLABS_API_KEY' \in BOOLEAN
    /\ task' = [p \in Procs |-> Idle]
    /\ resp' = NoResponse
    /\ UNCHANGED <<files, call>>

(* ------------------------------------- the stateless functions, called alone *)
\* a topic longer than the cut of get_opening_message, on one line
LongTopic == [i \in 1..(NameLimit + 1) |-> IF i > NameLimit THEN "z" ELSE "a"]

\* the `problem` arguments tried: absent, empty, blank, one line, padded,
\* several lines, a line that spells a greeting lead-in, a line over the cut
Topics ==
    {None, Some(<<>>), Some(<<" ">>), Some(<<"B", "V">>), Some(<<" ", "B", "V", " ">>),
     Some(<<"B", "V", "\n", "x">>), Some(Hello \o <<" ", "B", "V">>),
     Some(LongTopic)}

\* build_system_prompt(interview_type, tone, verbosity, problem) is called
Compose(interview_type, tone, verbosity, problem) ==
    /\ call' = [fn |-> "compose", interview_type |-> interview_type, tone |-> tone,
                verbosity |-> verbosity, problem |-> problem,
                result |-> build_system_prompt(interview_type, tone, verbosity, problem)]
    /\ UNCHANGED <<sessions, ELEVENLABS_API_KEY, task, resp, archive>>

\* get_opening_message(interview_type, tone, problem) is called
Opening(interview_type, tone, problem) ==
    /\ call' = [fn |-> "opening", interview_type |-> interview_type, tone |-> tone,
                problem |-> problem,
                result |-> get_opening_message(interview_type, tone, problem)]
    /\ UNCHANGED <<sessions, ELEVENLABS_API_KEY, task, resp, archive>>

\* get_random_problem(interview_type) is called and random.choice draws
Pick(interview_type) ==
    /\ \E problem_data \in get_random_problem(interview_type) :
          call' = [fn |-> "pick", interview_type |-> interview_type,
                   result |-> problem_data]
    /\ UNCHANGED <<sessions, ELEVENLABS_API_KEY, task, resp, archive>>

(* -------------------------------------------------------------- scraper.py *)
ExtractedContentLimit == 2000   \* text[:2000]
PageContentLimit == 3000        \* text[:3000]
PreviewLimit == 1000            \* text[:1000]

\* text[:n]
Truncate(text, n) == SubSeq(text, 1, IF Len(text) > n THEN n ELSE Len(text))

\* urls a scrape request can carry
ScrapeUrls == {"url1", "url2", "url3"}

\* a page text of n characters
TextOfLen(n) == [i \in 1..n |-> "c"]

\* what extract_text_from_html returns for the fetched page: nothing
\* readable, a short text, and a text just over each of the three cuts
PageTexts ==
    {<<>>, <<"t">>, TextOfLen(PreviewLimit + 1), TextOfLen(ExtractedContentLimit + 1),
     TextOfLen(PageContentLimit + 1)}

\* fetch_page_content: the page, an HTTP error status, any other failure
FetchOutcomes == {"ok", "http_404", "error"}

\* a JSON value as json.loads returns it.  A field of an object holds a
\* str, a null or a number.
JStr(chars) == [type |-> "str", chars |-> chars]
JNull == [type |-> "null"]
JNum == [type |-> "num"]
JObject(fields) == [type |-> "object", fields |-> fields]
JArray(items) == [type |-> "array", items |-> items]

GoodItem ==
    JObject([name |-> JStr(<<"n">>), content |-> JStr(<<"c">>),
             difficulty |-> JStr(<<"easy">>)])
NoDifficultyItem ==
    JObject([name |-> JStr(<<"n">>), content |-> JStr(<<"c">>), difficulty |-> JNull])
EmptyItem == JObject(<<>>)
NumberNameItem == JObject([name |-> JNum, content |-> JStr(<<"c">>)])
NullContentItem == JObject([name |-> JStr(<<"n">>), content |-> JNull])

\* what the chat completion answers: an exception, no content, text that is
\* not JSON, or JSON of some shape
AiOutcomes ==
    {[kind |-> "api_error"], [kind |-> "no_content"], [kind |-> "not_json"]}
    \cup {[kind |-> "json", value |-> v] :
            v \in {JNull, JNum, JStr(<<>>), JStr(<<"x">>), JObject(<<>>),
                   JObject([problems |-> JNull]),
                   JArray(<<>>), JArray(<<GoodItem>>),
                   JArray(<<GoodItem, NoDifficultyItem>>), JArray(<<EmptyItem>>),
                   JArray(<<GoodItem, JStr(<<"x">>)>>), JArray(<<GoodItem, JNull>>),
                   JArray(<<NumberNameItem>>), JArray(<<NullContentItem>>)}}

\* item.get(key, default) of a dict
ItemGet(item, key, default) ==
    IF key \in DOMAIN item.fields THEN item.fields[key] ELSE default

\* Problem(name=..., content=..., difficulty=...): the fields as given
ProblemOf(item) ==
    [name |-> ItemGet(item, "name", JStr(<<"Unnamed Problem">>)),
     content |-> ItemGet(item, "content", JStr(<<>>)),
     difficulty |-> ItemGet(item, "difficulty", JNull)]

\* the model accepts name: str, content: str, difficulty: Optional[str]
ProblemValid(problem) ==
    /\ problem.name.type = "str"
    /\ problem.content.type = "str"
    /\ problem.difficulty.type \in {"str", "null"}

\* whether `for item in result` can iterate over the value (it raises
\* TypeError over None and over a number)
Iterable(value) == value.type \in {"array", "object", "str"}

\* what it iterates over: the elements of a list, the keys of a dict, the
\* characters of a str
Iterate(value) ==
    CASE value.type = "array" -> value.items
      [] value.type = "object" ->
            IF DOMAIN value.fields = {} THEN <<>> ELSE <<JStr(<<"key">>)>>
      [] value.type = "str" -> [i \in 1..Len(value.chars) |-> JStr(<<value.chars[i]>>)]
      [] OTHER -> <<>>

ProblemList(problems) == [ok |-> TRUE, problems |-> problems, error |-> ""]
ExtractionError(error) == [ok |-> FALSE, problems |-> <<>>, error |-> error]

\* scraper.py:77-108: the list of problems, or the HTTPException(500) raised
extract_problems_with_ai(text, ai) ==
    CASE ai.kind = "api_error" -> ExtractionError("APIError")
      [] ai.kind = "no_content" ->
            \* json.loads(None)
            ExtractionError("TypeError")
      [] ai.kind = "not_json" ->
            \* except json.JSONDecodeError
            ProblemList(<<[name |-> JStr(<<"Extracted Content">>),
                           content |-> JStr(Truncate(text, ExtractedContentLimit)),
                           difficulty |-> JNull]>>)
      [] OTHER ->
            LET items == Iterate(ai.value)
            IN  IF ~Iterable(ai.value) THEN ExtractionError("TypeError")
                ELSE IF \E i \in DOMAIN items : items[i].type # "object"
                     THEN \* item.get on a str, a number or None
                          ExtractionError("AttributeError")
                ELSE IF \E i \in DOMAIN items : ~ProblemValid(ProblemOf(items[i]))
                     THEN ExtractionError("ValidationError")
                ELSE ProblemList([i \in DOMAIN items |-> ProblemOf(items[i])])

\* scraper.py:111-139
ExtractProblems(url, fetch, text, ai) ==
    /\ resp' =
          IF fetch = "http_404"
          THEN Response(0, "extract", 404, "Failed to fetch URL", 0, <<>>, NoAudio,
                        NoBody, 0, 0, 0)
          ELSE IF fetch = "error"
          THEN Response(0, "extract", 500, "Error fetching URL", 0, <<>>, NoAudio,
                        NoBody, 0, 0, 0)
          ELSE IF text = <<>>
          THEN Response(0, "extract", 400, "No readable content found on the page",
                        0, <<>>, NoAudio, NoBody, 0, 0, 0)
          ELSE LET extracted == extract_problems_with_ai(text, ai)
               IN  IF ~extracted.ok
                   THEN Response(0, "extract", 500,
                                 "AI extraction error: " \o extracted.error, 0, <<>>,
                                 NoAudio, NoBody, 0, 1, 0)
                   ELSE LET problems ==
                                IF extracted.problems = <<>>
                                THEN <<[name |-> JStr(<<"Page Content">>),
                                        content |-> JStr(Truncate(text, PageContentLimit)),
                                        difficulty |-> JNull]>>
                                ELSE extracted.problems
                        IN  Response(0, "extract", 200, "", 0, <<>>, NoAudio,
                                     [problems |-> problems, source_url |-> url],
                                     0, 1, 0)
    /\ UNCHANGED <<sessions, ELEVENLABS_API_KEY, task, archive, call>>

\* scraper.py:142-156
PreviewUrl(url, fetch, text) ==
    /\ resp' =
          IF fetch = "http_404"
          THEN Response(0, "preview", 404, "Failed to fetch URL", 0, <<>>, NoAudio,
                        NoBody, 0, 0, 0)
          ELSE IF fetch = "error"
          THEN Response(0, "preview", 500, "Error fetching URL", 0, <<>>, NoAudio,
                        NoBody, 0, 0, 0)
          ELSE Response(0, "preview", 200, "", 0, <<>>, NoAudio,
                        [url |-> url, text_length |-> Len(text),
                         preview |-> Truncate(text, PreviewLimit), full_text |-> text],
                        0, 0, 0)
    /\ UNCHANGED <<sessions, ELEVENLABS_API_KEY, task, archive, call>>

(* ------------------------------------------------------------ specification *)
\* text the standalone text-to-speech endpoint is asked to speak
TtsTexts == UserMessages

Next ==
    \/ \E p \in Procs :
        \/ \E request \in StartSessionRequest, session_id \in SessionIds :
              \E problem_data \in ProblemDraws(request) :
                StartSession(p, request, session_id, problem_data)
        \/ \E session_id \in SessionIds, user_message \in UserMessages,
              gen \in GenOutcomes :
                Respond(p, session_id, user_message, gen)
        \/ \E text \in TtsTexts : TextToSpeech(p, text)
        \/ \E outcome \in SynthOutcomes : SynthReturn(p, outcome)
        \/ \E session_id \in SessionIds : GetSession(p, session_id)
        \/ \E session_id \in SessionIds : EndSession(p, session_id)
    \/ Restart

\* the voice router, across process lifetimes
Spec == Init /\ [][Next]_vars

\* the voice router when every awaited synthesis call returns or raises in
\* the end (httpx has a 30 s timeout, elevenlabs_service.py:49)
SpecLive ==
    Spec /\ \A p \in Procs : WF_vars(\E outcome \in SynthOutcomes : SynthReturn(p, outcome))

ArchiveNext ==
    \/ \E session_id \in SessionIds, content \in SaveContents,
          outcome \in WriteOutcomes :
            SaveSession(session_id, content, outcome)
    \/ \E listing \in Listings(files) : ListSessions(listing)
    \/ \E session_id \in SessionIds : GetSavedSession(session_id)
    \/ \E session_id \in SessionIds : DeleteSession(session_id)
    \/ Restart

\* the session router, across process lifetimes.  The two routers share no
\* table: voice.py never touches saved_sessions or SESSIONS_DIR, session.py
\* never touches sessions.
SpecArchive == Init /\ [][ArchiveNext]_vars


ComposerNext ==
    \/ \E interview_type \in InterviewType, tone \in Tone, verbosity \in Verbosity,
          problem \in Topics :
            Compose(interview_type, tone, verbosity, problem)
    \/ \E interview_type \in InterviewType, tone \in Tone, problem \in Topics :
            Opening(interview_type, tone, problem)
    \/ \E interview_type \in InterviewType : Pick(interview_type)

\* the prompt composer and the problem selector, called on their own
SpecComposer == Init /\ [][ComposerNext]_vars

ScraperNext ==
    \/ \E url \in ScrapeUrls, fetch \in FetchOutcomes, text \in PageTexts,
          ai \in AiOutcomes :
            ExtractProblems(url, fetch, text, ai)
    \/ \E url \in ScrapeUrls, fetch \in FetchOutcomes, text \in PageTexts :
            PreviewUrl(url, fetch, text)

\* the scraper router
SpecScraper == Init /\ [][ScraperNext]_vars

(* ----------------------------------------------------------------- claims *)

\* The get_opening_message call of start_session never binds, so no request
\* ever writes the session table: it stays empty in every reachable state.
NoSessionEverStored == sessions = <<>>

\* C1: every start_session on a valid request stores, under the id it drew, a
\* session whose history is exactly one interviewer turn, and hands that id
\* and that turn's text on to the caller (after the synthesis attempt, if any).
C1_CreateStoresOpeningTurn ==
    [][\A p \in Procs, request \in StartSessionRequest, session_id \in SessionIds :
         \A problem_data \in ProblemDraws(request) :
            StartSession(p, request, session_id, problem_data) =>
                /\ session_id \in DOMAIN sessions'
                /\ Len(sessions'[session_id].messages) = 1
                /\ sessions'[session_id].messages[1].role = "interviewer"
                /\ LET returned == IF task'[p].pc = "await_tts" THEN task'[p] ELSE resp'
                   IN  /\ returned.session_id = session_id
                       /\ returned.text = sessions'[session_id].messages[1].content
                /\ task'[p].pc = "idle" => resp'.status = 200]_vars

\* C4: a respond on an id that is not in the session table answers 404
\* "Session not found", has made no text-generation and no synthesis call
\* (none counted, none pending), and leaves the session table as it was.
C4_RespondUnknownId ==
    [][\A p \in Procs, session_id \in SessionIds, user_message \in UserMessages,
          gen \in GenOutcomes :
            (session_id \notin DOMAIN sessions
             /\ Respond(p, session_id, user_message, gen)) =>
                /\ resp'.proc = p /\ resp'.op = "respond"
                /\ resp'.status = 404 /\ resp'.detail = "Session not found"
                /\ resp'.gen_calls = 0 /\ resp'.tts_calls = 0
                /\ task' = task
                /\ sessions' = sessions]_vars

\* C4 witness: a respond on an id absent from the table has been answered
C4_Witness ==
    /\ resp.op = "respond" /\ resp.status = 404
    /\ resp.session_id \notin DOMAIN sessions

\* C7: whenever the synthesis call raises inside start-session, respond or
\* text-to-speech, the request still succeeds and carries no audio.
C7_SynthesisErrorAbsorbed ==
    [][\A p \in Procs :
            SynthReturn(p, "error") =>
                /\ resp'.proc = p
                /\ resp'.status = 200
                /\ resp'.audio = NoAudio]_vars


\* C14: no handler is ever inside the speech-synthesis call while
\* ELEVENLABS_API_KEY is not set: every path checks the key before it calls.
C14_NoSynthesisWithoutKey ==
    \A p \in Procs : task[p].pc = "await_tts" => ELEVENLABS_API_KEY

\* the id has an archived record, in the index or in SESSIONS_DIR
InArchive(session_id) ==
    session_id \in DOMAIN saved_sessions \/ session_id \in DOMAIN files

\* how many entries of a list_sessions result carry the id
Listed(l, session_id) ==
    Cardinality({k \in DOMAIN l : l[k].session_id = session_id})

\* C16: a save on an id that was saved before leaves exactly one record for
\* that id in the in-memory index, in SESSIONS_DIR and in every listing, and
\* each of the three reflects the content of this second save.
C16_SecondSaveReplaces ==
    [][\A session_id \in SessionIds, content \in SaveContents,
          outcome \in WriteOutcomes :
            (session_id \in DOMAIN saved_sessions
             /\ SaveSession(session_id, content, outcome)) =>
                LET data == session_data(session_id, content)
                IN  /\ session_id \in DOMAIN saved_sessions'
                    /\ saved_sessions'[session_id] = data
                    /\ session_id \in DOMAIN files'
                    /\ files'[session_id] = data
                    /\ \A listing \in Listings(files') :
                          LET l == list_sessions(saved_sessions', files', listing)
                          IN  /\ Listed(l, session_id) = 1
                              /\ \A k \in DOMAIN l :
                                    l[k].session_id = session_id
                                        => l[k] = Summary(session_id, data)]_vars

\* C17: whenever save answers with its success message, the saved dict is
\* under its id both in the in-memory index and in SESSIONS_DIR, the same
\* content in both.
C17_SuccessMeansBothWritten ==
    [][\A session_id \in SessionIds, content \in SaveContents,
          outcome \in WriteOutcomes :
            (SaveSession(session_id, content, outcome) /\ resp'.status = 200) =>
                /\ session_id \in DOMAIN saved_sessions'
                /\ session_id \in DOMAIN files'
                /\ files'[session_id] = saved_sessions'[session_id]]_vars

\* C18: list returns exactly one summary for every id that has a record in
\* the in-memory index or a readable record in SESSIONS_DIR, none for any
\* other id, and for an id in the index the summary of the in-memory copy.
C18_ListIsUnion ==
    [][\A listing \in Listings(files) :
            ListSessions(listing) =>
                LET l == resp'.body.sessions
                    present == DOMAIN saved_sessions
                               \cup {i \in DOMAIN files : files[i] # Corrupt}
                IN  /\ \A i \in present : Listed(l, i) = 1
                    /\ \A k \in DOMAIN l : l[k].session_id \in present
                    /\ \A k \in DOMAIN l :
                          l[k].session_id \in DOMAIN saved_sessions
                              => l[k] = Summary(l[k].session_id,
                                                saved_sessions[l[k].session_id])]_vars

\* C19: get and delete of an archived session answer 404 exactly when the id
\* is neither in the in-memory index nor in SESSIONS_DIR; a delete that
\* succeeds leaves the id in neither, so that no listing contains it (and, by
\* the first part, a get of it answers 404); a listing never names an id that
\* is in neither.
C19_NotFoundIffInNeither ==
    [][/\ \A session_id \in SessionIds :
            GetSavedSession(session_id) =>
                (resp'.status = 404 <=> ~InArchive(session_id))
       /\ \A session_id \in SessionIds :
            DeleteSession(session_id) =>
                /\ resp'.status = 404 <=> ~InArchive(session_id)
                /\ resp'.status = 200 =>
                      /\ session_id \notin DOMAIN saved_sessions'
                      /\ session_id \notin DOMAIN files'
                      /\ \A listing \in Listings(files') :
                            Listed(list_sessions(saved_sessions', files', listing),
                                   session_id) = 0
       /\ \A listing \in Listings(files) :
            ListSessions(listing) =>
                \A k \in DOMAIN resp'.body.sessions :
                    InArchive(resp'.body.sessions[k].session_id)]_vars

\* C19 witness: a delete has succeeded and the id is now in neither location
C19_Witness ==
    /\ resp.op = "delete" /\ resp.status = 200
    /\ ~InArchive(resp.session_id)


\* text t holds text sub as a contiguous part
InfixOf(sub, t) ==
    \E i \in 0..(Len(t) - Len(sub)) : SubSeq(t, i + 1, i + Len(sub)) = sub

\* an absent, empty or whitespace-only topic
Blank(problem) == problem.none \/ Strip(problem.s) = <<>>

\* the short reference to a topic: its first line, outer blanks dropped, cut
\* to NameLimit characters
Reference(problem) ==
    LET line == Strip(FirstLine(problem.s))
    IN  SubSeq(line, 1, IF Len(line) > NameLimit THEN NameLimit ELSE Len(line))

\* C21: for every (category, tone, verbosity) and any topic, the output of
\* compose contains the tone directive text and the verbosity directive text
\* of the given tone and verbosity verbatim.  (Determinism is how the
\* composer is modelled: build_system_prompt reads its arguments and three
\* tables that nothing assigns.)
C21_ComposeHoldsDirectives ==
    call.fn = "compose" =>
        /\ InfixOf(<<TONE_MODIFIERS[call.tone]>>, call.result)
        /\ InfixOf(<<VERBOSITY_MODIFIERS[call.verbosity]>>, call.result)

\* C21 witness: a prompt was composed for a topic, adversarial and detailed
C21_Witness ==
    /\ call.fn = "compose" /\ call.tone = "adversarial" /\ call.verbosity = "high"
    /\ call.problem = Some(<<"B", "V">>)
    /\ InfixOf(<<"B", "V">>, call.result)

\* C22: an empty or whitespace-only topic is treated as absent: compose
\* gives what it gives without a topic, and opening gives the greeting it
\* gives without a topic.
C22_BlankTopicIsAbsent ==
    (call.fn \in {"compose", "opening"} /\ Blank(call.problem)) =>
        IF call.fn = "compose"
        THEN call.result = build_system_prompt(call.interview_type, call.tone,
                                               call.verbosity, None)
        ELSE call.result = get_opening_message(call.interview_type, call.tone, None)

\* C23: in every category, the opening for a present topic embeds the
\* topic's first line cut to at most NameLimit characters (and no more of a
\* longer line); the opening for an absent topic is the category's greeting
\* without a topic.
C23_OpeningEmbedsTopic ==
    call.fn = "opening" =>
        IF Blank(call.problem)
        THEN call.result = get_opening_message(call.interview_type, call.tone, None)
        ELSE /\ Len(Reference(call.problem)) <= NameLimit
             /\ InfixOf(Reference(call.problem), call.result)
             /\ Len(Strip(FirstLine(call.problem.s))) > NameLimit
                    => ~InfixOf(Strip(FirstLine(call.problem.s)), call.result)

\* the terser lead-ins of the adversarial tone
TerseLeadIns == {<<"Alright,">>, <<"Let's begin.">>, <<"Okay,">>}

\* C24: the tone transforms the greeting in a fixed way: friendly prepends
\* the warm preamble to the neutral greeting; adversarial swaps the lead-in
\* of the neutral greeting for a terser one, never holds the friendly
\* preamble, and still holds the topic reference that the neutral greeting
\* holds, unaltered.
C24_ToneTransform ==
    call.fn = "opening" =>
        LET neutral == get_opening_message(call.interview_type, "neutral",
                                           call.problem)
        IN  /\ call.tone = "friendly" => call.result = FriendlyPreamble \o neutral
            /\ call.tone = "adversarial" =>
                  /\ ~InfixOf(FriendlyPreamble, call.result)
                  /\ \E lead \in TerseLeadIns : SubSeq(call.result, 1, 1) = lead
                  /\ (~Blank(call.problem)
                      /\ InfixOf(Reference(call.problem), neutral))
                        => InfixOf(Reference(call.problem), call.result)

\* C25: pick returns an entry of the requested category's bank and of no
\* other bank; for an empty bank it returns the entry named "General
\* Discussion".  (The banks are tables that nothing assigns.)
C25_PickFromOwnBank ==
    call.fn = "pick" =>
        /\ PROBLEM_BANKS[call.interview_type] # {}
              => call.result \in PROBLEM_BANKS[call.interview_type]
        /\ \A t \in InterviewType \ {call.interview_type} :
              call.result \notin PROBLEM_BANKS[t]
        /\ PROBLEM_BANKS[call.interview_type] = {}
              => call.result.name = <<"General Discussion">>

\* C25 witness: a coaching topic was picked
C25_Witness ==
    /\ call.fn = "pick" /\ call.interview_type = "coaching"
    /\ call.result \in COACHING_TOPICS


\* the completion's content cannot be turned into a list of problems: it is
\* not JSON, or it is JSON that is not an array of objects
Unusable(ai) ==
    \/ ai.kind = "not_json"
    \/ /\ ai.kind = "json"
       /\ \/ ai.value.type # "array"
          \/ \E i \in DOMAIN ai.value.items : ai.value.items[i].type # "object"

\* C29: whenever the page was fetched and has text and the completion's
\* content cannot be turned into a list of problems, the request succeeds
\* with a single problem whose content is the page text passed through.
C29_ExtractionDegrades ==
    [][\A url \in ScrapeUrls, text \in PageTexts, ai \in AiOutcomes :
          (ExtractProblems(url, "ok", text, ai) /\ text # <<>> /\ Unusable(ai)) =>
              /\ resp'.status = 200
              /\ Len(resp'.body.problems) = 1
              /\ \E n \in {ExtractedContentLimit, PageContentLimit} :
                    resp'.body.problems[1].content = JStr(Truncate(text, n))]_vars


\* C32: a create that fails before its session record is written leaves the
\* session table as it was; a create that goes on to the synthesis call has
\* written its record before; no record in the table has an empty history.
C32_FailedCreateLeavesStore ==
    [][/\ \* a step whose answer is a failed create and that moves no handler
          \* is a start_session that raised
          (resp'.op = "start" /\ resp'.status # 200 /\ task' = task)
              => sessions' = sessions
       /\ \A p \in Procs :
             (task[p].pc = "idle" /\ task'[p].pc = "await_tts"
              /\ task'[p].handler = "start")
                 => task'[p].session_id \in DOMAIN sessions'
       /\ \A i \in DOMAIN sessions' : sessions'[i].messages # <<>>]_vars

\* C32 witness: a create has failed with the TypeError of its opening call,
\* and the table holds nothing
C32_Witness ==
    /\ resp.op = "start" /\ resp.status = 500 /\ resp.detail = "TypeError"
    /\ sessions = <<>>

\* handler slot p can take a create, a respond and an end
CanServe(p) ==
    /\ ENABLED (\E request \in StartSessionRequest, session_id \in SessionIds :
                  \E problem_data \in ProblemDraws(request) :
                     StartSession(p, request, session_id, problem_data))
    /\ ENABLED (\E session_id \in SessionIds, user_message \in UserMessages,
                  gen \in GenOutcomes :
                     Respond(p, session_id, user_message, gen))
    /\ ENABLED (\E session_id \in SessionIds : EndSession(p, session_id))

\* C35: when every awaited collaborator call returns or raises in the end,
\* no create, respond or end waits on another operation (a handler that is
\* not suspended itself can always take one, whatever the other handlers
\* are doing), and every suspended handler completes.
C35_NoOperationWaits ==
    /\ [](\A p \in Procs : task[p].pc = "idle" => CanServe(p))
    /\ \A p \in Procs : (task[p].pc = "await_tts") ~> (task[p].pc = "idle")

\* C35 witness: a respond completed (with its error) while another handler
\* was suspended in a collaborator call
C35_Witness ==
    /\ resp.op \in {"start", "respond", "end"}
    /\ \E q \in Procs \ {resp.proc} : task[q].pc = "await_tts"

====
